---- MODULE Spec2Model ----
(***************************************************************************)
(* CCRemote server: configuration translation (config.rs), hot reload of   *)
(* the Factory (config.rs, start_factory_hot_reload) and the start-up of   *)
(* the interactive server (main.rs, run_interactive).                      *)
(*                                                                         *)
(* The Factory engine itself (factory.rs, process.rs, recipe.rs,           *)
(* storage.rs) is not part of the sources at hand; the cycle scheduler and *)
(* the recipe matching are modelled from the design document (sections     *)
(* 4.3, 4.5, 5) and are marked "design document" below.                    *)
(***************************************************************************)
EXTENDS Integers, Sequences, FiniteSets, TLC

\* ---------------------------------------------------------------- bounds
\* Change notifications the configuration file receives in one run.
MaxReloads == 2
\* Largest quantity of one item held by the normal pool or by the reserve.
MaxQty == 3
\* Quantity of each item in the pool and in the reserve when the server starts.
InitQty == 2
\* Largest size of one (slot, size) placement of a recipe input.
MaxSlotSize == 2
\* Largest extra_backup of a recipe input.
MaxExtra == 1
\* Largest max_sets of a recipe.
MaxSets == 2
\* Resolution of the clock: ticks per second.
TicksPerSec == 2
\* Largest quantity of X the Chest of the worked scenario holds at the start.
MaxStock == 10
\* Largest number of process entries of a generated configuration.
MaxEntries == 2
\* Most lines the Tui's log buffer holds before a frame trims it.
MaxLogLines == 2
\* Height of the log area of the terminal, in lines.
LogHeight == 1
\* Longest main list a component hands to the Tui.
MaxList == 1
\* PageDown is pressed only while the scroll offset is below this value.
MaxScroll == 8
\* Most lines the user enters (Enter key) in one run.
MaxInput == 1

VARIABLES
    main_pc,      \* run_interactive: "boot", "run" or "crashed" (panic at start-up)
    file,         \* content of config.json on disk
    edits,        \* number of changes made to config.json so far
    events,       \* notifications queued in the watcher's channel (rx)
    next_id,      \* identity given to the next Factory object that is built
    watcher_pc,   \* watcher thread: "off", "recv", "building", "built", "locked", "dead"
    new_factory,  \* the watcher's local new_factory
    lock,         \* holder of the Mutex around factory_ref: "free", "watcher", "cycle"
    factory_ref,  \* the Option<Rc<RefCell<Factory>>> inside the Mutex
    attempt,      \* history: the reload attempt in progress or last finished
    cyc_pc,       \* cycle loop: "sleep", "read", "run"
    cur,          \* the Factory reference the running cycle obtained
    cyc_step,     \* index of the next unit (storage or process) to advance
    advanced,     \* history: units advanced so far in this cycle, in order
    failed,       \* history: index of the latest unit whose step failed in this cycle, or 0
    since_begin,  \* ticks elapsed since the last cycle began (saturating)
    wake,         \* ticks after the last begin before which the loop sleeps
    last_cycle,   \* history: Factory id of the previous cycle, ticks between the begins
    pool,         \* item quantities in the normal storages
    reserve,      \* item quantities in the global backup reserve
    signal,       \* last redstone level set at each redstone address
    last_log,     \* history: extractions made by the last process step
    tui_pc,       \* per thread using the Tui: the operation it is in and its step
    tui_lock,     \* per Mutex field of the Tui: the thread holding it, or "free"
    tui           \* the data behind the Tui's Mutex fields and the on_redraw permit

vars == <<main_pc, file, edits, events, next_id, watcher_pc, new_factory, lock,
          factory_ref, attempt, cyc_pc, cur, cyc_step, advanced, failed,
          since_begin, wake, last_cycle, pool, reserve, signal, last_log,
          tui_pc, tui_lock, tui>>

reload_vars == <<main_pc, file, edits, events, next_id, watcher_pc, new_factory,
                 lock, factory_ref, attempt>>
cycle_vars == <<cyc_pc, cur, cyc_step, advanced, failed, wake, last_cycle>>
world_vars == <<pool, reserve, signal, last_log>>
tui_vars == <<tui_pc, tui_lock, tui>>
core_vars == <<reload_vars, cycle_vars, world_vars, since_begin>>

\* ---------------------------------------------------------------- helpers
Min(a, b) == IF a <= b THEN a ELSE b

Max(a, b) == IF a >= b THEN a ELSE b

RECURSIVE SumSeq(_)
SumSeq(s) == IF s = <<>> THEN 0 ELSE Head(s) + SumSeq(Tail(s))

RECURSIVE Flatten(_)
Flatten(ss) == IF ss = <<>> THEN <<>> ELSE Head(ss) \o Flatten(Tail(ss))

\* ---------------------------------------------------------------- items
\* The item kinds of the world: (label, name) as the detail cache reports them.
ItemX == [label |-> "X", name |-> "x"]

ItemY == [label |-> "Y", name |-> "y"]

\* What the recipes of the configurations below declare as their output.
ItemP == [label |-> "P", name |-> "p"]

Items == {ItemX, ItemY, ItemP}

\* The stocks of a pool in which only the items of `stocked` occur.
StocksOf(stocked) ==
    {p \in [Items -> 0..MaxQty] : \A item \in Items \ stocked : p[item] = 0}

\* The addresses the process entries of a generated configuration choose from.
EntryAddrs == {<<"p1", "p2", "p3", "p4">>[k] : k \in 1..MaxEntries}

\* The addresses a redstone level can be set at.
RedstoneAddrs == {"r1"} \cup EntryAddrs

\* ------------------------------------------- configuration documents
BusAccessConfig(c, a) == [client |-> c, addr |-> a]

SlotConfig(slot, size) == [slot |-> slot, size |-> size]

ItemFilterLabel(v) == [type |-> "Label", value |-> v]

ItemFilterName(v) == [type |-> "Name", value |-> v]

ItemFilterBoth(l, n) == [type |-> "Both", label |-> l, name |-> n]

ItemFilterCustom(d) == [type |-> "Custom", desc |-> d]

SlottedInputConfig(item, slots, allow_backup, extra_backup) ==
    [item |-> item, slots |-> slots, allow_backup |-> allow_backup,
     extra_backup |-> extra_backup]

CraftingRecipe(outputs, inputs, max_sets) ==
    [outputs |-> outputs, inputs |-> inputs, max_sets |-> max_sets]

RedstoneRule(name, off, on, triggers) ==
    [name |-> name, off_signal |-> off, on_signal |-> on, trigger_items |-> triggers]

\* override is the Option<i32> override_max_stack_size; 0 stands for None.
ChestCfg(accesses, override) ==
    [type |-> "Chest", accesses |-> accesses, override_max_stack_size |-> override]

DrawerCfg(accesses, filters) ==
    [type |-> "Drawer", accesses |-> accesses, filters |-> filters]

ManualUICfg(accesses) == [type |-> "ManualUI", accesses |-> accesses]

WorkbenchCfg(name, accesses, recipes) ==
    [type |-> "Workbench", name |-> name, accesses |-> accesses, recipes |-> recipes]

\* extract_filter is left out of the document (None).
SlottedCfg(name, accesses, input_slots, recipes, strict_priority) ==
    [type |-> "Slotted", name |-> name, accesses |-> accesses,
     input_slots |-> input_slots, extract_filter |-> "None", recipes |-> recipes,
     strict_priority |-> strict_priority]

TurtleCfg(name, file_name, client) ==
    [type |-> "Turtle", name |-> name, file_name |-> file_name, client |-> client]

RedstoneEmitterCfg(accesses, output_rules) ==
    [type |-> "RedstoneEmitter", accesses |-> accesses, output_rules |-> output_rules]

DynamicFactoryConfig(secs, storages, processes, backups) ==
    [server_port |-> 1847, min_cycle_time_secs |-> secs, log_clients |-> <<"log">>,
     bus_accesses |-> <<BusAccessConfig("c1", "bus")>>,
     storages |-> storages, processes |-> processes, backups |-> backups]

\* One crafting recipe over item X.
RecipeX(slots, allow_backup, extra_backup, max_sets) ==
    CraftingRecipe(<<ItemFilterLabel("P")>>,
                   <<SlottedInputConfig(ItemFilterLabel("X"), slots, allow_backup,
                                        extra_backup)>>,
                   max_sets)

\* Configuration A: one chest, a workbench and an emitter with two rules.
ConfigA ==
    DynamicFactoryConfig(1,
        <<ChestCfg(<<BusAccessConfig("c1", "s1")>>, 16)>>,
        <<WorkbenchCfg("bench", <<BusAccessConfig("c1", "p1")>>,
                       <<RecipeX(<<SlotConfig(1, 1), SlotConfig(2, 1)>>, FALSE, 0, 1)>>),
          RedstoneEmitterCfg(<<BusAccessConfig("c1", "r1")>>,
                             <<RedstoneRule("low", 0, 15, <<ItemFilterLabel("X")>>),
                               RedstoneRule("high", 7, 0, <<ItemFilterName("y")>>)>>)>>,
        <<BusAccessConfig("c1", "b1")>>)

\* Configuration B: a chest and a drawer, a manual station, a slotted machine
\* whose first recipe may draw on the reserve, and a turtle.
ConfigB ==
    DynamicFactoryConfig(0,
        <<ChestCfg(<<BusAccessConfig("c1", "s1")>>, 0),
          DrawerCfg(<<BusAccessConfig("c1", "s2")>>, <<ItemFilterBoth("X", "x")>>)>>,
        <<ManualUICfg(<<BusAccessConfig("c1", "m1")>>),
          SlottedCfg("press", <<BusAccessConfig("c1", "p2")>>, <<1>>,
                     <<RecipeX(<<SlotConfig(1, 1)>>, TRUE, 1, 2),
                       RecipeX(<<SlotConfig(1, 2)>>, FALSE, 0, 1)>>, FALSE),
          TurtleCfg("miner", "mine.lua", "c2")>>,
        <<BusAccessConfig("c1", "b1")>>)

\* Configuration Z: well-formed JSON that breaks a construction-time invariant
\* (a recipe with max_sets = 0).
ConfigZ ==
    DynamicFactoryConfig(1,
        <<ChestCfg(<<BusAccessConfig("c1", "s1")>>, 0)>>,
        <<WorkbenchCfg("bench", <<BusAccessConfig("c1", "p1")>>,
                       <<RecipeX(<<SlotConfig(1, 1)>>, FALSE, 0, 0)>>)>>,
        <<>>)

\* Configuration D: well-formed JSON that breaks a construction-time invariant
\* (the manual station names the address of the chest).
ConfigD ==
    DynamicFactoryConfig(1,
        <<ChestCfg(<<BusAccessConfig("c1", "s1")>>, 0)>>,
        <<ManualUICfg(<<BusAccessConfig("c1", "s1")>>)>>,
        <<>>)

\* The placements of one recipe input: one or two slots of bounded size.
SlotLists ==
    {<<SlotConfig(1, a)>> : a \in 1..MaxSlotSize}
    \cup {<<SlotConfig(1, a), SlotConfig(2, b)>> : a, b \in 1..MaxSlotSize}

\* Configurations R: a chest, a workbench with one recipe of any shape within the
\* bounds, and a slotted machine with two recipes that may draw on the reserve.
RecipeConfigs ==
    {DynamicFactoryConfig(0,
        <<ChestCfg(<<BusAccessConfig("c1", "s1")>>, 16)>>,
        <<WorkbenchCfg("bench", <<BusAccessConfig("c1", "p1")>>,
                       <<RecipeX(slots, allow_backup, extra_backup, max_sets)>>),
          SlottedCfg("press", <<BusAccessConfig("c1", "p2")>>, <<1>>,
                     <<RecipeX(<<SlotConfig(1, 1)>>, TRUE, 1, 1),
                       RecipeX(<<SlotConfig(1, 1)>>, TRUE, 0, 1)>>, FALSE)>>,
        <<BusAccessConfig("c1", "b1")>>) :
        slots \in SlotLists, allow_backup \in BOOLEAN, extra_backup \in 0..MaxExtra,
        max_sets \in 1..MaxSets}

\* One crafting recipe with two inputs: a of X at slot 1, b of Y at slot 2.
RecipeXY(a, b, allow_backup, max_sets) ==
    CraftingRecipe(<<ItemFilterLabel("P")>>,
                   <<SlottedInputConfig(ItemFilterLabel("X"), <<SlotConfig(1, a)>>,
                                        allow_backup, 0),
                     SlottedInputConfig(ItemFilterName("y"), <<SlotConfig(2, b)>>,
                                        FALSE, 0)>>,
                   max_sets)

\* One crafting recipe over item Y.
RecipeY(size, max_sets) ==
    CraftingRecipe(<<ItemFilterLabel("P")>>,
                   <<SlottedInputConfig(ItemFilterBoth("Y", "y"), <<SlotConfig(1, size)>>,
                                        FALSE, 0)>>,
                   max_sets)

\* Configurations M: a chest, a workbench whose recipe has two inputs, and a
\* slotted machine with a recipe over X declared before a recipe over Y, with
\* or without strict_priority.
MatchConfigs ==
    {DynamicFactoryConfig(0,
        <<ChestCfg(<<BusAccessConfig("c1", "s1")>>, 16)>>,
        <<WorkbenchCfg("bench", <<BusAccessConfig("c1", "p1")>>,
                       <<RecipeXY(a, b, allow_backup, max_sets)>>),
          SlottedCfg("press", <<BusAccessConfig("c1", "p2")>>, <<1>>,
                     <<RecipeX(<<SlotConfig(1, 1)>>, FALSE, 0, 1),
                       RecipeY(1, max_sets)>>, strict_priority)>>,
        <<BusAccessConfig("c1", "b1")>>) :
        a, b \in 1..MaxSlotSize, allow_backup \in BOOLEAN, max_sets \in 1..MaxSets,
        strict_priority \in BOOLEAN}

\* The worked scenario of the design document (section 8): a Chest (override max
\* stack size 16), a destination Drawer that accepts the output P, and a
\* Workbench whose recipe needs 5 X per set, allow_backup = false, max_sets = 1.
ScenarioConfig ==
    DynamicFactoryConfig(0,
        <<ChestCfg(<<BusAccessConfig("c1", "s1")>>, 16),
          DrawerCfg(<<BusAccessConfig("c1", "s2")>>, <<ItemFilterLabel("P")>>)>>,
        <<WorkbenchCfg("bench", <<BusAccessConfig("c1", "p1")>>,
                       <<RecipeX(<<SlotConfig(1, 5)>>, FALSE, 0, 1)>>)>>,
        <<BusAccessConfig("c1", "b1")>>)

\* The process entries of a generated configuration: every variant, a
\* Workbench with a recipe of max_sets 0 or 1, an emitter with no, one or two
\* rules, each at any of the addresses.
ProcessEntries ==
    {ManualUICfg(<<BusAccessConfig("c1", a)>>) : a \in EntryAddrs}
    \cup {WorkbenchCfg("bench", <<BusAccessConfig("c1", a)>>,
                       <<RecipeX(<<SlotConfig(1, 1)>>, FALSE, 0, max_sets)>>) :
             a \in EntryAddrs, max_sets \in 0..1}
    \cup {SlottedCfg("press", <<BusAccessConfig("c1", a)>>, <<1>>,
                     <<RecipeX(<<SlotConfig(1, 1)>>, FALSE, 0, 1)>>, TRUE) :
             a \in EntryAddrs}
    \cup {TurtleCfg("miner", "mine.lua", "c2")}
    \cup {RedstoneEmitterCfg(<<BusAccessConfig("c1", a)>>,
                             SubSeq(<<RedstoneRule("low", 0, 15, <<ItemFilterLabel("X")>>),
                                      RedstoneRule("high", 7, 0, <<ItemFilterName("y")>>)>>,
                                    1, n)) :
             a \in EntryAddrs, n \in 0..2}

\* The lists of at most n process entries.
RECURSIVE EntryLists(_)
EntryLists(n) ==
    IF n = 0 THEN {<<>>}
    ELSE EntryLists(n - 1)
         \cup {Append(l, e) : l \in {x \in EntryLists(n - 1) : Len(x) = n - 1},
                              e \in ProcessEntries}

\* Configurations G: one chest and any list of at most MaxEntries process entries.
BuildConfigs ==
    {DynamicFactoryConfig(0, <<ChestCfg(<<BusAccessConfig("c1", "s1")>>, 0)>>,
                          processes, <<>>) : processes \in EntryLists(MaxEntries)}

\* What config.json can hold: nothing (unreadable), text that is no configuration
\* document, or a document.
FileMissing == [kind |-> "missing"]

FileGarbage == [kind |-> "garbage"]

FileJson(doc) == [kind |-> "json", doc |-> doc]

FileContents == {FileMissing, FileGarbage, FileJson(ConfigA), FileJson(ConfigB),
                 FileJson(ConfigZ)}

\* Documents only: a valid one and the two that break a construction-time
\* invariant.
BootstrapFiles == {FileJson(ConfigA), FileJson(ConfigZ), FileJson(ConfigD)}

\* ------------------------------------------------ config.rs: translation
\* ItemFilter::to_filter. A Custom filter's predicate is the closure |_, _| true.
to_filter(f) ==
    CASE f.type = "Label" -> [kind |-> "Label", label |-> f.value]
      [] f.type = "Name" -> [kind |-> "Name", name |-> f.value]
      [] f.type = "Both" -> [kind |-> "Both", label |-> f.label, name |-> f.name]
      [] f.type = "Custom" -> [kind |-> "Custom", desc |-> f.desc, func |-> "true"]

ToBusAccess(a) == [client |-> a.client, inv_addr |-> a.addr, bus_addr |-> a.addr]

ToBusAccesses(accesses) == [i \in 1..Len(accesses) |-> ToBusAccess(accesses[i])]

ToBasicAccess(a) == [client |-> a.client, addr |-> a.addr]

ToBasicAccesses(accesses) == [i \in 1..Len(accesses) |-> ToBasicAccess(accesses[i])]

ToRedstoneAccess(a) == [client |-> a.client, addr |-> a.addr]

ToRedstoneAccesses(accesses) == [i \in 1..Len(accesses) |-> ToRedstoneAccess(accesses[i])]

\* Faulty variant of convert_input: the placements are collected last to first.
convert_input_reversed_slots(input) ==
    [item |-> to_filter(input.item),
     size |-> SumSeq([j \in 1..Len(input.slots) |-> input.slots[j].size]),
     slots |-> [j \in 1..Len(input.slots) |->
                   <<input.slots[Len(input.slots) + 1 - j].slot,
                     input.slots[Len(input.slots) + 1 - j].size>>],
     allow_backup |-> input.allow_backup,
     extra_backup |-> input.extra_backup]

\* Faulty variant of convert_input: allow_backup is set whatever the document says.
convert_input_allow_backup(input) ==
    [item |-> to_filter(input.item),
     size |-> SumSeq([j \in 1..Len(input.slots) |-> input.slots[j].size]),
     slots |-> [j \in 1..Len(input.slots) |->
                   <<input.slots[j].slot, input.slots[j].size>>],
     allow_backup |-> TRUE,
     extra_backup |-> input.extra_backup]

\* Faulty variant of convert_input: size is the first placement's size only.
convert_input_first_slot(input) ==
    [item |-> to_filter(input.item),
     size |-> input.slots[1].size,
     slots |-> [j \in 1..Len(input.slots) |->
                   <<input.slots[j].slot, input.slots[j].size>>],
     allow_backup |-> input.allow_backup,
     extra_backup |-> input.extra_backup]

\* Faulty variant of convert_input: extra_backup is not carried over.
convert_input_no_extra(input) ==
    [item |-> to_filter(input.item),
     size |-> SumSeq([j \in 1..Len(input.slots) |-> input.slots[j].size]),
     slots |-> [j \in 1..Len(input.slots) |->
                   <<input.slots[j].slot, input.slots[j].size>>],
     allow_backup |-> input.allow_backup,
     extra_backup |-> 0]

\* SlottedInput of convert_recipe: size is the sum of the placements' sizes.
convert_input(input) ==
    [item |-> to_filter(input.item),
     size |-> SumSeq([j \in 1..Len(input.slots) |-> input.slots[j].size]),
     slots |-> [j \in 1..Len(input.slots) |->
                   <<input.slots[j].slot, input.slots[j].size>>],
     allow_backup |-> input.allow_backup,
     extra_backup |-> input.extra_backup]

\* Faulty variant of convert_recipe: only the first input is converted.
convert_recipe_first_input(recipe) ==
    [outputs |-> <<>>,
     inputs |-> [i \in 1..Min(1, Len(recipe.inputs)) |-> convert_input(recipe.inputs[i])],
     max_sets |-> recipe.max_sets,
     non_consumables |-> <<>>]

\* convert_recipe: outputs and non_consumables are left empty by the code.
convert_recipe(recipe) ==
    [outputs |-> <<>>,
     inputs |-> [i \in 1..Len(recipe.inputs) |-> convert_input(recipe.inputs[i])],
     max_sets |-> recipe.max_sets,
     non_consumables |-> <<>>]

\* The storage one StorageConfig entry adds (factory.add_storage).
BuildStorage(storage) ==
    CASE storage.type = "Chest" ->
            [kind |-> "Chest", accesses |-> ToBusAccesses(storage.accesses),
             override_max_stack_size |-> storage.override_max_stack_size]
      [] storage.type = "Drawer" ->
            [kind |-> "Drawer", accesses |-> ToBusAccesses(storage.accesses),
             filters |-> [i \in 1..Len(storage.filters) |-> to_filter(storage.filters[i])]]

\* Faulty variant of BuildProcess: a RedstoneEmitter entry adds one process,
\* whatever the number of its rules.
BuildProcessOnePerEmitter(process, entry) ==
    CASE process.type = "ManualUI" ->
            <<[kind |-> "ManualUI", entry |-> entry, rule |-> 0,
               accesses |-> ToBusAccesses(process.accesses)]>>
      [] process.type = "Workbench" ->
            <<[kind |-> "Workbench", entry |-> entry, rule |-> 0,
               name |-> process.name,
               accesses |-> ToBusAccesses(process.accesses),
               recipes |-> [i \in 1..Len(process.recipes) |-> convert_recipe(process.recipes[i])]]>>
      [] process.type = "Slotted" ->
            <<[kind |-> "Slotted", entry |-> entry, rule |-> 0,
               name |-> process.name,
               accesses |-> ToBusAccesses(process.accesses),
               input_slots |-> process.input_slots,
               to_extract |-> process.extract_filter,
               recipes |-> [i \in 1..Len(process.recipes) |-> convert_recipe(process.recipes[i])],
               strict_priority |-> process.strict_priority]>>
      [] process.type = "Turtle" ->
            <<[kind |-> "Turtle", entry |-> entry, rule |-> 0,
               name |-> process.name, file_name |-> process.file_name,
               client |-> process.client]>>
      [] process.type = "RedstoneEmitter" ->
            <<[kind |-> "RedstoneEmitter", entry |-> entry, rule |-> 1,
               accesses |-> ToRedstoneAccesses(process.accesses),
               output |-> IF process.output_rules = <<>> THEN 0
                          ELSE process.output_rules[1].off_signal]>>

\* The processes one ProcessConfig entry adds (factory.add_process), in order.
\* entry and rule record where in the configuration a process comes from; a
\* RedstoneEmitter adds one process per output rule, whose output closure
\* returns rule.off_signal.
BuildProcess(process, entry) ==
    CASE process.type = "ManualUI" ->
            <<[kind |-> "ManualUI", entry |-> entry, rule |-> 0,
               accesses |-> ToBusAccesses(process.accesses)]>>
      [] process.type = "Workbench" ->
            <<[kind |-> "Workbench", entry |-> entry, rule |-> 0,
               name |-> process.name,
               accesses |-> ToBusAccesses(process.accesses),
               recipes |-> [i \in 1..Len(process.recipes) |-> convert_recipe(process.recipes[i])]]>>
      [] process.type = "Slotted" ->
            <<[kind |-> "Slotted", entry |-> entry, rule |-> 0,
               name |-> process.name,
               accesses |-> ToBusAccesses(process.accesses),
               input_slots |-> process.input_slots,
               to_extract |-> process.extract_filter,
               recipes |-> [i \in 1..Len(process.recipes) |-> convert_recipe(process.recipes[i])],
               strict_priority |-> process.strict_priority]>>
      [] process.type = "Turtle" ->
            <<[kind |-> "Turtle", entry |-> entry, rule |-> 0,
               name |-> process.name, file_name |-> process.file_name,
               client |-> process.client]>>
      [] process.type = "RedstoneEmitter" ->
            [k \in 1..Len(process.output_rules) |->
                [kind |-> "RedstoneEmitter", entry |-> entry, rule |-> k,
                 accesses |-> ToRedstoneAccesses(process.accesses),
                 output |-> process.output_rules[k].off_signal]]

\* Faulty variant of BuildProcesses: strict_priority is not carried over.
BuildProcessesNoPriority(processes) ==
    Flatten([e \in 1..Len(processes) |->
                [i \in 1..Len(BuildProcess(processes[e], e)) |->
                    IF BuildProcess(processes[e], e)[i].kind = "Slotted"
                    THEN [BuildProcess(processes[e], e)[i] EXCEPT !.strict_priority = FALSE]
                    ELSE BuildProcess(processes[e], e)[i]]])

\* Faulty variant of BuildProcesses: the entries are walked last to first.
BuildProcessesReversed(processes) ==
    Flatten([e \in 1..Len(processes) |->
                BuildProcess(processes[Len(processes) + 1 - e], Len(processes) + 1 - e)])

\* The builder closure of build_factory_from_json: "for process in &config.processes".
BuildProcesses(processes) ==
    Flatten([e \in 1..Len(processes) |-> BuildProcess(processes[e], e)])

\* Faulty variant of DurationFromSecs: Duration::from_millis of the same number.
DurationFromMillis(secs) == (secs * TicksPerSec) \div 1000

\* Duration::from_secs on the model's clock.
DurationFromSecs(secs) == secs * TicksPerSec

\* Faulty variant of BuildFactory: min_cycle_time is a fixed second.
BuildFactoryFixedCycleTime(config, id) ==
    [id |-> id,
     config |-> config,
     server_port |-> config.server_port,
     min_cycle_time |-> DurationFromSecs(1),
     backups |-> ToBasicAccesses(config.backups),
     storages |-> [i \in 1..Len(config.storages) |-> BuildStorage(config.storages[i])],
     processes |-> BuildProcesses(config.processes)]

\* build_factory_from_json once the document is loaded: the Factory object.
\* id is the identity of the object, config the document it was built from.
BuildFactory(config, id) ==
    [id |-> id,
     config |-> config,
     server_port |-> config.server_port,
     min_cycle_time |-> DurationFromSecs(config.min_cycle_time_secs),
     backups |-> ToBasicAccesses(config.backups),
     storages |-> [i \in 1..Len(config.storages) |-> BuildStorage(config.storages[i])],
     processes |-> BuildProcesses(config.processes)]

\* Faulty variant of load_dynamic_config: unwrap_or_default in place of expect,
\* an unreadable or malformed file yields a default document.
load_dynamic_config_or_default(f) ==
    IF f.kind = "json" THEN [ok |-> TRUE, config |-> f.doc]
    ELSE [ok |-> TRUE, config |-> ConfigA]

\* load_dynamic_config: read_to_string(..).expect(..), from_str(..).expect(..).
\* ok = FALSE stands for the panic of either expect.
load_dynamic_config(f) ==
    IF f.kind = "json" THEN [ok |-> TRUE, config |-> f.doc]
    ELSE [ok |-> FALSE, config |-> ConfigZ]

\* Design document, 4.5 and 7: the construction-time invariants FactoryConfig::build
\* enforces: a positive max_sets in every recipe, no address claimed by two entries.
RecipesOf(process) ==
    IF process.type \in {"Workbench", "Slotted"} THEN process.recipes ELSE <<>>

AddrsOf(entry) ==
    IF entry.type = "Turtle" THEN {}
    ELSE {<<entry.accesses[i].client, entry.accesses[i].addr>> :
             i \in 1..Len(entry.accesses)}

BootstrapViolation(config) ==
    LET entries == config.storages \o config.processes IN
    \/ \E p \in 1..Len(config.processes) :
          \E r \in 1..Len(RecipesOf(config.processes[p])) :
             RecipesOf(config.processes[p])[r].max_sets <= 0
    \/ \E i, j \in 1..Len(entries) :
          i < j /\ AddrsOf(entries[i]) \cap AddrsOf(entries[j]) # {}

\* build_factory_from_json(path): [ok, factory]; ok = FALSE stands for a panic.
NoFactory == [id |-> 0]

\* Faulty variant of build_factory_from_json: the construction-time invariants
\* are not checked.
build_factory_from_json_unchecked(f, id) ==
    LET loaded == load_dynamic_config(f) IN
    IF loaded.ok
    THEN [ok |-> TRUE, factory |-> BuildFactory(loaded.config, id)]
    ELSE [ok |-> FALSE, factory |-> NoFactory]

build_factory_from_json(f, id) ==
    LET loaded == load_dynamic_config(f) IN
    IF loaded.ok /\ ~BootstrapViolation(loaded.config)
    THEN [ok |-> TRUE, factory |-> BuildFactory(loaded.config, id)]
    ELSE [ok |-> FALSE, factory |-> NoFactory]

\* ------------------------------- design document 4.3: recipe matching
\* Filter matching; the Custom predicate built by to_filter accepts every item.
Matches(filter, item) ==
    CASE filter.kind = "Label" -> item.label = filter.label
      [] filter.kind = "Name" -> item.name = filter.name
      [] filter.kind = "Both" -> item.label = filter.label /\ item.name = filter.name
      [] filter.kind = "Custom" -> TRUE

Candidates(filter) == {item \in Items : Matches(filter, item)}

\* The matching item of which the normal pool p holds most.
SearchItem(filter, p) ==
    CHOOSE item \in Candidates(filter) :
        \A other \in Candidates(filter) : p[item] >= p[other]

\* What one input may take from the reserve r: with allow_backup, whatever
\* leaves extra_backup units behind; without it, nothing.
Drawable(input, item, r) ==
    IF input.allow_backup THEN Max(r[item] - input.extra_backup, 0) ELSE 0

\* feasible_sets of one SlottedInput.
FeasibleSets(input, p, r) ==
    IF Candidates(input.item) = {} THEN 0
    ELSE LET item == SearchItem(input.item, p) IN
         (p[item] + Drawable(input, item, r)) \div input.size

RECURSIVE MinFeasible(_, _, _, _)
MinFeasible(inputs, p, r, acc) ==
    IF inputs = <<>> THEN acc
    ELSE MinFeasible(Tail(inputs), p, r, Min(acc, FeasibleSets(Head(inputs), p, r)))

\* Every non_consumable of the recipe is there (quantity > 0).
NonConsumablesPresent(recipe, p) ==
    \A n \in 1..Len(recipe.non_consumables) :
        \E item \in Candidates(recipe.non_consumables[n]) : p[item] > 0

\* Sets a recipe executes now: the minimum over its inputs, capped at max_sets;
\* none while a non_consumable is missing.
RecipeSets(recipe, p, r) ==
    IF NonConsumablesPresent(recipe, p)
    THEN MinFeasible(recipe.inputs, p, r, recipe.max_sets)
    ELSE 0

\* Extraction of `sets` sets of one input: sets * size units at each declared
\* (slot, size) placement, from the normal pool first and from the reserve for
\* the rest. Storage.extract is best effort and never exceeds what is there.
ExtractInput(input, sets, w, where) ==
    LET item == SearchItem(input.item, w.pool)
        placed == SumSeq([j \in 1..Len(input.slots) |-> sets * input.slots[j][2]])
        from_pool == Min(placed, w.pool[item])
        from_reserve == Min(placed - from_pool, Drawable(input, item, w.reserve))
    IN [w EXCEPT
        !.pool = [w.pool EXCEPT ![item] = @ - from_pool],
        !.reserve = [w.reserve EXCEPT ![item] = @ - from_reserve],
        !.log = Append(w.log,
                   [entry |-> where[1], recipe |-> where[2],
                    input |-> Len(w.log) + 1 - where[3],
                    item |-> item, sets |-> sets,
                    placements |-> [j \in 1..Len(input.slots) |->
                                       <<input.slots[j][1], sets * input.slots[j][2]>>],
                    pool_before |-> w.pool[item],
                    reserve_before |-> w.reserve[item],
                    extracted |-> from_pool + from_reserve,
                    from_reserve |-> from_reserve,
                    reserve_after |-> w.reserve[item] - from_reserve])]

RECURSIVE ExtractInputs(_, _, _, _)
ExtractInputs(inputs, sets, w, where) ==
    IF inputs = <<>> THEN w
    ELSE ExtractInputs(Tail(inputs), sets,
                       ExtractInput(Head(inputs), sets, w, where), where)

\* A Chest takes any item, a Drawer the items its filters match.
Accepts(storage, item) ==
    \/ storage.kind = "Chest"
    \/ /\ storage.kind = "Drawer"
       /\ \E i \in 1..Len(storage.filters) : Matches(storage.filters[i], item)

\* The outputs of `sets` executed sets: one unit per set of each declared output
\* goes to a Storage that accepts it; an output no Storage accepts stays in the
\* machine.
RECURSIVE RouteOutputs(_, _, _)
RouteOutputs(outputs, sets, w) ==
    IF outputs = <<>> THEN w
    ELSE LET made == Candidates(Head(outputs))
             item == CHOOSE i \in made : TRUE
             routed == /\ made # {}
                       /\ \E i \in 1..Len(w.storages) : Accepts(w.storages[i], item)
         IN RouteOutputs(Tail(outputs), sets,
                         IF routed
                         THEN [w EXCEPT !.pool = [w.pool EXCEPT ![item] = @ + sets]]
                         ELSE w)

\* Recipes k.. of a process in declaration order; with strict_priority the first
\* recipe that fires ends the step.
RECURSIVE RunRecipes(_, _, _, _, _)
RunRecipes(recipes, k, strict, entry, w) ==
    IF k > Len(recipes) THEN w
    ELSE LET sets == RecipeSets(recipes[k], w.pool, w.reserve) IN
         IF sets >= 1
         THEN LET after == RouteOutputs(recipes[k].outputs, sets,
                               ExtractInputs(recipes[k].inputs, sets, w,
                                             <<entry, k, Len(w.log)>>)) IN
              IF strict THEN after ELSE RunRecipes(recipes, k + 1, strict, entry, after)
         ELSE RunRecipes(recipes, k + 1, strict, entry, w)

\* Design document 4.4: one "advance" step of a process on the world w.
AdvanceStep(process, w) ==
    CASE process.kind = "Workbench" ->
            RunRecipes(process.recipes, 1, FALSE, process.entry, w)
      [] process.kind = "Slotted" ->
            RunRecipes(process.recipes, 1, process.strict_priority, process.entry, w)
      [] process.kind = "RedstoneEmitter" ->
            [w EXCEPT !.signal =
                [a \in RedstoneAddrs |->
                    IF \E i \in 1..Len(process.accesses) : process.accesses[i].addr = a
                    THEN process.output ELSE w.signal[a]]]
      [] OTHER -> w

\* ---------------------------------------------------------------- state
\* The clock saturates once every configured min_cycle_time has elapsed.
ClockCap == TicksPerSec * Max(ConfigA.min_cycle_time_secs, ConfigB.min_cycle_time_secs)

\* A configuration file a Factory can be built from.
ValidFile(f) == f.kind = "json" /\ ~BootstrapViolation(f.doc)

\* ------------------------------------------------------- main.rs: Tui
\* The threads that use the Tui: the UI loop of run_interactive ("ui") and the
\* components that call log, set_main_list or set_main_scroll.
Callers == {"c1", "c2"}

TuiThreads == {"ui"} \cup Callers

\* The six Mutex fields of struct Tui.
TuiLocks == {"logs", "input_queue", "text_area", "main_list", "main_scroll",
             "main_scroll_state"}

\* Largest value of the u16 scroll offset.
U16Max == 2^16 - 1

\* Lines a PageUp or PageDown key moves the scroll offset by.
PageStep == 8

\* A thread's position: the operation it is in and the index of the lock of
\* LockSeq it asks for next (past the end: no further lock).
At(op, k) == [op |-> op, at |-> k]

\* Tui::default(): every lock free, empty buffers, a TextArea of one empty line,
\* offset 0, ScrollbarState::default(), no redraw permit stored.  The UI loop is
\* about to draw its first frame; the components are outside the Tui.
TuiInit ==
    /\ tui_pc = [t \in TuiThreads |-> IF t = "ui" THEN At("frame", 1) ELSE At("idle", 0)]
    /\ tui_lock = [l \in TuiLocks |-> "free"]
    /\ tui = [logs |-> 0, input_queue |-> 0, text_lines |-> 1, main_list |-> 0,
              main_scroll |-> 0, position |-> 0, content_length |-> 0,
              on_redraw |-> FALSE]

NoAttempt == [prev |-> NoFactory, input_valid |-> TRUE, outcome |-> "none"]

Init ==
    /\ main_pc = "boot"
    /\ file \in FileContents
    /\ edits = 0
    /\ events = 0
    /\ next_id = 1
    /\ watcher_pc = "off"
    /\ new_factory = NoFactory
    /\ lock = "free"
    /\ factory_ref = NoFactory
    /\ attempt = NoAttempt
    /\ cyc_pc = "sleep"
    /\ cur = NoFactory
    /\ cyc_step = 0
    /\ advanced = <<>>
    /\ failed = 0
    /\ since_begin = 0
    /\ wake = 0
    /\ last_cycle = [prev_id |-> 0, gap |-> 0]
    /\ pool = [item \in Items |-> InitQty]
    /\ reserve = [item \in Items |-> InitQty]
    /\ signal = [a \in RedstoneAddrs |-> 0]
    /\ last_log = <<>>
    /\ TuiInit

\* ------------------------------------------- main.rs: run_interactive
\* Lines 168-170: build the Factory from config.json (a panic ends the process),
\* wrap it in Arc<Mutex<Some(..)>> and start the hot-reload thread.
Boot ==
    /\ main_pc = "boot"
    /\ LET built == build_factory_from_json(file, next_id) IN
       IF built.ok
       THEN /\ main_pc' = "run"
            /\ factory_ref' = built.factory
            /\ next_id' = next_id + 1
            /\ watcher_pc' = "recv"
       ELSE /\ main_pc' = "crashed"
            /\ UNCHANGED <<factory_ref, next_id, watcher_pc>>
    /\ UNCHANGED <<file, edits, events, new_factory, lock, attempt, since_begin>>
    /\ UNCHANGED cycle_vars
    /\ UNCHANGED world_vars
    /\ UNCHANGED tui_vars

\* The environment rewrites config.json; the notify watcher, while its thread
\* lives, queues an event on the channel.
EditConfig(f) ==
    /\ main_pc = "run"
    /\ edits < MaxReloads
    /\ file' = f
    /\ edits' = edits + 1
    /\ events' = IF watcher_pc = "dead" THEN events ELSE events + 1
    /\ UNCHANGED <<main_pc, next_id, watcher_pc, new_factory, lock, factory_ref,
                   attempt, since_begin>>
    /\ UNCHANGED cycle_vars
    /\ UNCHANGED world_vars
    /\ UNCHANGED tui_vars

\* ------------------------------- config.rs: start_factory_hot_reload
\* Faulty variant of WatcherRecv: the old Factory is taken out of the reference
\* (factory_ref.lock().unwrap().take()) before the new one is built.
WatcherRecvTake ==
    /\ main_pc = "run"
    /\ watcher_pc = "recv"
    /\ events > 0
    /\ lock = "free"
    /\ events' = events - 1
    /\ watcher_pc' = "building"
    /\ factory_ref' = NoFactory
    /\ attempt' = [prev |-> factory_ref, input_valid |-> TRUE, outcome |-> "running"]
    /\ UNCHANGED <<main_pc, file, edits, next_id, new_factory, lock, since_begin>>
    /\ UNCHANGED cycle_vars
    /\ UNCHANGED world_vars
    /\ UNCHANGED tui_vars

\* Faulty variant of WatcherRecv: factory_ref.lock() is taken before the build.
WatcherRecvLockFirst ==
    /\ main_pc = "run"
    /\ watcher_pc = "recv"
    /\ events > 0
    /\ lock = "free"
    /\ lock' = "watcher"
    /\ events' = events - 1
    /\ watcher_pc' = "building"
    /\ attempt' = [prev |-> factory_ref, input_valid |-> TRUE, outcome |-> "running"]
    /\ UNCHANGED <<main_pc, file, edits, next_id, new_factory, factory_ref,
                   since_begin>>
    /\ UNCHANGED cycle_vars
    /\ UNCHANGED world_vars
    /\ UNCHANGED tui_vars

\* Line 350-351: rx.recv() returns Ok(Event).
WatcherRecv ==
    /\ main_pc = "run"
    /\ watcher_pc = "recv"
    /\ events > 0
    /\ events' = events - 1
    /\ watcher_pc' = "building"
    /\ attempt' = [prev |-> factory_ref, input_valid |-> TRUE, outcome |-> "running"]
    /\ UNCHANGED <<main_pc, file, edits, next_id, new_factory, lock, factory_ref,
                   since_begin>>
    /\ UNCHANGED cycle_vars
    /\ UNCHANGED world_vars
    /\ UNCHANGED tui_vars

\* Line 352: build_factory_from_json reads the file as it is now; a panic in it
\* unwinds the watcher thread, which holds no lock at that point.
WatcherBuild ==
    /\ main_pc = "run"
    /\ watcher_pc = "building"
    /\ LET built == build_factory_from_json(file, next_id) IN
       IF built.ok
       THEN /\ new_factory' = built.factory
            /\ next_id' = next_id + 1
            /\ watcher_pc' = "built"
            /\ attempt' = [attempt EXCEPT !.input_valid = ValidFile(file)]
       ELSE /\ watcher_pc' = "dead"
            /\ attempt' = [attempt EXCEPT !.input_valid = ValidFile(file),
                                          !.outcome = "failed"]
            /\ UNCHANGED <<new_factory, next_id>>
    /\ UNCHANGED <<main_pc, file, edits, events, lock, factory_ref, since_begin>>
    /\ UNCHANGED cycle_vars
    /\ UNCHANGED world_vars
    /\ UNCHANGED tui_vars

\* Line 353: factory_ref.lock().
WatcherLock ==
    /\ main_pc = "run"
    /\ watcher_pc = "built"
    /\ lock = "free"
    /\ lock' = "watcher"
    /\ watcher_pc' = "locked"
    /\ UNCHANGED <<main_pc, file, edits, events, next_id, new_factory, factory_ref,
                   attempt, since_begin>>
    /\ UNCHANGED cycle_vars
    /\ UNCHANGED world_vars
    /\ UNCHANGED tui_vars

\* Lines 354-356: *factory_lock = Some(new_factory); the guard is dropped at the
\* end of the match arm and the loop returns to rx.recv().
WatcherSwap ==
    /\ main_pc = "run"
    /\ watcher_pc = "locked"
    /\ factory_ref' = new_factory
    /\ new_factory' = NoFactory
    /\ lock' = "free"
    /\ watcher_pc' = "recv"
    /\ attempt' = [attempt EXCEPT !.outcome = "ok"]
    /\ UNCHANGED <<main_pc, file, edits, events, next_id, since_begin>>
    /\ UNCHANGED cycle_vars
    /\ UNCHANGED world_vars
    /\ UNCHANGED tui_vars

\* ------------------------------- design document 4.5, 5: cycle scheduler
\* The units of a Factory in the order a cycle advances them.
UnitsOf(f) ==
    [i \in 1..Len(f.storages) |-> <<"storage", i, 0>>]
    \o [i \in 1..Len(f.processes) |->
           <<"process", f.processes[i].entry, f.processes[i].rule>>]

\* A cycle begins once min_cycle_time has passed since the previous one began:
\* the loop takes the guard around the current Factory reference.
CycleLock ==
    /\ main_pc = "run"
    /\ cyc_pc = "sleep"
    /\ since_begin >= wake
    /\ lock = "free"
    /\ lock' = "cycle"
    /\ cyc_pc' = "read"
    /\ since_begin' = 0
    /\ last_cycle' = [last_cycle EXCEPT !.gap = since_begin]
    /\ UNCHANGED <<main_pc, file, edits, events, next_id, watcher_pc, new_factory,
                   factory_ref, attempt>>
    /\ UNCHANGED <<cur, cyc_step, advanced, failed, wake>>
    /\ UNCHANGED world_vars
    /\ UNCHANGED tui_vars

\* The loop clones the reference and drops the guard before any cycle work.
CycleRead ==
    /\ cyc_pc = "read"
    /\ cur' = factory_ref
    /\ lock' = "free"
    /\ cyc_pc' = "run"
    /\ cyc_step' = 1
    /\ advanced' = <<>>
    /\ failed' = 0
    /\ last_cycle' = [prev_id |-> factory_ref.id, gap |-> 0]
    /\ UNCHANGED <<main_pc, file, edits, events, next_id, watcher_pc, new_factory,
                   factory_ref, attempt, since_begin, wake>>
    /\ UNCHANGED world_vars
    /\ UNCHANGED tui_vars

\* Advance the next Storage (passive housekeeping); an I/O failure is logged.
AdvanceStorage ==
    /\ cyc_pc = "run"
    /\ cyc_step <= Len(cur.storages)
    /\ \E io_failure \in BOOLEAN :
          failed' = IF io_failure THEN cyc_step ELSE failed
    /\ advanced' = Append(advanced, UnitsOf(cur)[cyc_step])
    /\ cyc_step' = cyc_step + 1
    /\ last_log' = <<>>
    /\ UNCHANGED <<pool, reserve, signal>>
    /\ UNCHANGED reload_vars
    /\ UNCHANGED <<cyc_pc, cur, wake, last_cycle, since_begin>>
    /\ UNCHANGED tui_vars

\* Faulty variant of AdvanceProcess: an I/O failure propagates out of the
\* Process and the rest of the cycle is given up.
AdvanceProcessAbort ==
    /\ cyc_pc = "run"
    /\ cyc_step > Len(cur.storages)
    /\ cyc_step <= Len(UnitsOf(cur))
    /\ \E io_failure \in BOOLEAN :
          LET process == cur.processes[cyc_step - Len(cur.storages)]
              w == [pool |-> pool, reserve |-> reserve, signal |-> signal, log |-> <<>>,
                    storages |-> cur.storages]
              after == IF io_failure THEN w ELSE AdvanceStep(process, w)
          IN /\ failed' = IF io_failure THEN cyc_step ELSE failed
             /\ cyc_step' = IF io_failure THEN Len(UnitsOf(cur)) + 1 ELSE cyc_step + 1
             /\ pool' = after.pool
             /\ reserve' = after.reserve
             /\ signal' = after.signal
             /\ last_log' = after.log
    /\ advanced' = Append(advanced, UnitsOf(cur)[cyc_step])
    /\ UNCHANGED reload_vars
    /\ UNCHANGED <<cyc_pc, cur, wake, last_cycle, since_begin>>
    /\ UNCHANGED tui_vars

\* Advance the next Process; an I/O failure is caught at the Process boundary,
\* that Process makes no progress and the cycle goes on with the next one.
AdvanceProcess ==
    /\ cyc_pc = "run"
    /\ cyc_step > Len(cur.storages)
    /\ cyc_step <= Len(UnitsOf(cur))
    /\ \E io_failure \in BOOLEAN :
          LET process == cur.processes[cyc_step - Len(cur.storages)]
              w == [pool |-> pool, reserve |-> reserve, signal |-> signal, log |-> <<>>,
                    storages |-> cur.storages]
              after == IF io_failure THEN w ELSE AdvanceStep(process, w)
          IN /\ failed' = IF io_failure THEN cyc_step ELSE failed
             /\ pool' = after.pool
             /\ reserve' = after.reserve
             /\ signal' = after.signal
             /\ last_log' = after.log
    /\ advanced' = Append(advanced, UnitsOf(cur)[cyc_step])
    /\ cyc_step' = cyc_step + 1
    /\ UNCHANGED reload_vars
    /\ UNCHANGED <<cyc_pc, cur, wake, last_cycle, since_begin>>
    /\ UNCHANGED tui_vars

\* Every unit was advanced: release the reference and sleep until
\* min_cycle_time has elapsed since the cycle began.
CycleEnd ==
    /\ cyc_pc = "run"
    /\ cyc_step > Len(UnitsOf(cur))
    /\ cyc_pc' = "sleep"
    /\ wake' = cur.min_cycle_time
    /\ cur' = NoFactory
    /\ cyc_step' = 0
    /\ advanced' = <<>>
    /\ failed' = 0
    /\ last_log' = <<>>
    /\ UNCHANGED <<pool, reserve, signal, last_cycle, since_begin>>
    /\ UNCHANGED reload_vars
    /\ UNCHANGED tui_vars

\* ---------------------------------------------------------- environment
\* Time passes.
Tick ==
    /\ main_pc = "run"
    /\ since_begin < ClockCap
    /\ since_begin' = since_begin + 1
    /\ UNCHANGED reload_vars
    /\ UNCHANGED cycle_vars
    /\ UNCHANGED world_vars
    /\ UNCHANGED tui_vars

\* Something outside the Factory puts one item into a storage or into the reserve.
Deposit(item, into_reserve) ==
    /\ main_pc = "run"
    /\ IF into_reserve
       THEN /\ reserve[item] < MaxQty
            /\ reserve' = [reserve EXCEPT ![item] = @ + 1]
            /\ pool' = pool
       ELSE /\ pool[item] < MaxQty
            /\ pool' = [pool EXCEPT ![item] = @ + 1]
            /\ reserve' = reserve
    /\ UNCHANGED <<signal, last_log, since_begin>>
    /\ UNCHANGED reload_vars
    /\ UNCHANGED cycle_vars
    /\ UNCHANGED tui_vars

Next ==
    \/ Boot
    \/ \E f \in FileContents : EditConfig(f)
    \/ WatcherRecv
    \/ WatcherBuild
    \/ WatcherLock
    \/ WatcherSwap
    \/ CycleLock
    \/ CycleRead
    \/ AdvanceStorage
    \/ AdvanceProcess
    \/ CycleEnd
    \/ Tick

Spec == Init /\ [][Next]_vars

\* The server running a Factory built from a configuration R, config.json left
\* alone, on any stock: cycles and deposits only.
InitRecipes ==
    /\ main_pc = "run"
    /\ file \in {FileJson(config) : config \in RecipeConfigs}
    /\ edits = 0
    /\ events = 0
    /\ next_id = 2
    /\ watcher_pc = "recv"
    /\ new_factory = NoFactory
    /\ lock = "free"
    /\ factory_ref = build_factory_from_json(file, 1).factory
    /\ attempt = NoAttempt
    /\ cyc_pc = "sleep"
    /\ cur = NoFactory
    /\ cyc_step = 0
    /\ advanced = <<>>
    /\ failed = 0
    /\ since_begin = 0
    /\ wake = 0
    /\ last_cycle = [prev_id |-> 0, gap |-> 0]
    /\ pool \in StocksOf({ItemX})
    /\ reserve \in StocksOf({ItemX})
    /\ signal = [a \in RedstoneAddrs |-> 0]
    /\ last_log = <<>>
    /\ TuiInit

NextRecipes ==
    \/ CycleLock
    \/ CycleRead
    \/ AdvanceStorage
    \/ AdvanceProcess
    \/ CycleEnd
    \/ \E item \in {ItemX}, into_reserve \in BOOLEAN : Deposit(item, into_reserve)

SpecRecipes == InitRecipes /\ [][NextRecipes]_vars

\* The server running a Factory built from a configuration M, config.json left
\* alone, on any stock of X and Y.
InitMatch ==
    /\ main_pc = "run"
    /\ file \in {FileJson(config) : config \in MatchConfigs}
    /\ edits = 0
    /\ events = 0
    /\ next_id = 2
    /\ watcher_pc = "recv"
    /\ new_factory = NoFactory
    /\ lock = "free"
    /\ factory_ref = build_factory_from_json(file, 1).factory
    /\ attempt = NoAttempt
    /\ cyc_pc = "sleep"
    /\ cur = NoFactory
    /\ cyc_step = 0
    /\ advanced = <<>>
    /\ failed = 0
    /\ since_begin = 0
    /\ wake = 0
    /\ last_cycle = [prev_id |-> 0, gap |-> 0]
    /\ pool \in StocksOf({ItemX, ItemY})
    /\ reserve \in StocksOf({ItemX})
    /\ signal = [a \in RedstoneAddrs |-> 0]
    /\ last_log = <<>>
    /\ TuiInit

NextMatch ==
    \/ CycleLock
    \/ CycleRead
    \/ AdvanceStorage
    \/ AdvanceProcess
    \/ CycleEnd
    \/ \E item \in {ItemX, ItemY} : Deposit(item, FALSE)

SpecMatch == InitMatch /\ [][NextMatch]_vars

\* The server started on, and config.json rewritten with, well-formed documents
\* of which some break a construction-time invariant.
InitBootstrap ==
    /\ main_pc = "boot"
    /\ file \in BootstrapFiles
    /\ edits = 0
    /\ events = 0
    /\ next_id = 1
    /\ watcher_pc = "off"
    /\ new_factory = NoFactory
    /\ lock = "free"
    /\ factory_ref = NoFactory
    /\ attempt = NoAttempt
    /\ cyc_pc = "sleep"
    /\ cur = NoFactory
    /\ cyc_step = 0
    /\ advanced = <<>>
    /\ failed = 0
    /\ since_begin = 0
    /\ wake = 0
    /\ last_cycle = [prev_id |-> 0, gap |-> 0]
    /\ pool = [item \in Items |-> InitQty]
    /\ reserve = [item \in Items |-> InitQty]
    /\ signal = [a \in RedstoneAddrs |-> 0]
    /\ last_log = <<>>
    /\ TuiInit

NextBootstrap ==
    \/ Boot
    \/ \E f \in BootstrapFiles : EditConfig(f)
    \/ WatcherRecv
    \/ WatcherBuild
    \/ WatcherLock
    \/ WatcherSwap
    \/ CycleLock
    \/ CycleRead
    \/ AdvanceStorage
    \/ AdvanceProcess
    \/ CycleEnd
    \/ Tick

SpecBootstrap == InitBootstrap /\ [][NextBootstrap]_vars

\* The server starting on a configuration G: the start-up build, then cycles.
InitBuild ==
    /\ main_pc = "boot"
    /\ file \in {FileJson(config) : config \in BuildConfigs}
    /\ edits = 0
    /\ events = 0
    /\ next_id = 1
    /\ watcher_pc = "off"
    /\ new_factory = NoFactory
    /\ lock = "free"
    /\ factory_ref = NoFactory
    /\ attempt = NoAttempt
    /\ cyc_pc = "sleep"
    /\ cur = NoFactory
    /\ cyc_step = 0
    /\ advanced = <<>>
    /\ failed = 0
    /\ since_begin = 0
    /\ wake = 0
    /\ last_cycle = [prev_id |-> 0, gap |-> 0]
    /\ pool = [item \in Items |-> InitQty]
    /\ reserve = [item \in Items |-> InitQty]
    /\ signal = [a \in RedstoneAddrs |-> 0]
    /\ last_log = <<>>
    /\ TuiInit

NextBuild ==
    \/ Boot
    \/ CycleLock
    \/ CycleRead
    \/ AdvanceStorage
    \/ AdvanceProcess
    \/ CycleEnd

SpecBuild == InitBuild /\ [][NextBuild]_vars

\* The server running the Factory of the worked scenario, the Chest holding up
\* to MaxStock X, the destination empty: cycles only, nothing arrives from outside.
InitScenario ==
    /\ main_pc = "run"
    /\ file = FileJson(ScenarioConfig)
    /\ edits = 0
    /\ events = 0
    /\ next_id = 2
    /\ watcher_pc = "recv"
    /\ new_factory = NoFactory
    /\ lock = "free"
    /\ factory_ref = build_factory_from_json(file, 1).factory
    /\ attempt = NoAttempt
    /\ cyc_pc = "sleep"
    /\ cur = NoFactory
    /\ cyc_step = 0
    /\ advanced = <<>>
    /\ failed = 0
    /\ since_begin = 0
    /\ wake = 0
    /\ last_cycle = [prev_id |-> 0, gap |-> 0]
    /\ pool \in {[item \in Items |-> IF item = ItemX THEN n ELSE 0] : n \in 0..MaxStock}
    /\ reserve \in StocksOf({ItemX})
    /\ signal = [a \in RedstoneAddrs |-> 0]
    /\ last_log = <<>>
    /\ TuiInit

NextScenario ==
    \/ CycleLock
    \/ CycleRead
    \/ AdvanceStorage
    \/ AdvanceProcess
    \/ CycleEnd

SpecScenario == InitScenario /\ [][NextScenario]_vars

\* ------------------------------------------------------- main.rs: Tui
\* Faulty variant of LockSeq: set_main_list locks the offset before the list.
LockSeqScrollFirst(op) ==
    CASE op = "log" -> <<"logs">>
      [] op = "set_main_list" -> <<"main_scroll", "main_list", "main_scroll_state">>
      [] op = "set_main_scroll" -> <<"main_list", "main_scroll", "main_scroll_state">>
      [] op = "frame" -> <<"text_area", "main_list", "main_scroll",
                           "main_scroll_state", "logs">>
      [] op = "ctrl_l" -> <<"logs">>
      [] op = "page_up" -> <<"main_scroll">>
      [] op = "page_down" -> <<"main_scroll">>
      [] op = "enter" -> <<"text_area", "input_queue">>
      [] op = "other" -> <<"text_area">>
      [] OTHER -> <<>>

\* The locks an operation takes, in the order of its code.  log (line 74);
\* set_main_list (84, 86, 88) and set_main_scroll (94, 95, 97) hold all three to
\* their end; frame takes text_area for one statement (103), holds main_list
\* (106), takes main_scroll (113) and main_scroll_state (118) for one statement
\* each when the list is not empty, and then holds logs (122); the key handlers
\* of run_interactive: Ctrl-L (182), PageUp (185), PageDown (188), Enter (191,
\* 193: input_queue for one statement while text_area is held), others (197).
LockSeq(op) ==
    CASE op = "log" -> <<"logs">>
      [] op = "set_main_list" -> <<"main_list", "main_scroll", "main_scroll_state">>
      [] op = "set_main_scroll" -> <<"main_list", "main_scroll", "main_scroll_state">>
      [] op = "frame" -> <<"text_area", "main_list", "main_scroll",
                           "main_scroll_state", "logs">>
      [] op = "ctrl_l" -> <<"logs">>
      [] op = "page_up" -> <<"main_scroll">>
      [] op = "page_down" -> <<"main_scroll">>
      [] op = "enter" -> <<"text_area", "input_queue">>
      [] op = "other" -> <<"text_area">>
      [] OTHER -> <<>>

\* The lock thread t asks for next: lock() blocks until it is free.
Wants(t) ==
    IF tui_pc[t].at \in 1..Len(LockSeq(tui_pc[t].op))
    THEN LockSeq(tui_pc[t].op)[tui_pc[t].at]
    ELSE "none"

CanLock(t) == Wants(t) # "none" /\ tui_lock[Wants(t)] = "free"

\* t is at step k of operation op and the lock of that step is free.
AtLock(t, op, k) == tui_pc[t] = At(op, k) /\ CanLock(t)

\* The MutexGuard of the step stays alive: t holds the lock from now on.
Hold(t) == tui_lock' = [tui_lock EXCEPT ![Wants(t)] = t]

\* The guards of t are dropped (end of the function or of the handler's block).
Drop(t) == tui_lock' = [l \in TuiLocks |-> IF tui_lock[l] = t THEN "free" ELSE tui_lock[l]]

Goto(t, op, k) == tui_pc' = [tui_pc EXCEPT ![t] = At(op, k)]

\* The clamp of lines 87 and 96: min(list.len().max(1) as u16 - 1).
ClampScroll(scroll, len) == Min(scroll, (Max(len, 1) % 2^16) - 1)

\* A component calls one of the Tui's functions.  log takes a colour code of the
\* fixed set of lines 64-70 and matches it before it locks anything.
Call(t, op) ==
    /\ tui_pc[t] = At("idle", 0)
    /\ op = "log" =>
         tui.logs + Cardinality({u \in Callers : tui_pc[u].op = "log"}) < MaxLogLines
    /\ Goto(t, op, 1)
    /\ UNCHANGED <<tui_lock, tui>>
    /\ UNCHANGED core_vars

\* log, line 74: self.logs.lock().
LogLock(t) ==
    /\ AtLock(t, "log", 1)
    /\ Hold(t)
    /\ Goto(t, "log", 2)
    /\ UNCHANGED tui
    /\ UNCHANGED core_vars

\* log, lines 75-77: push the line, notify_one (a permit is stored), return.
LogPush(t) ==
    /\ tui_pc[t] = At("log", 2)
    /\ tui' = [tui EXCEPT !.logs = @ + 1, !.on_redraw = TRUE]
    /\ Drop(t)
    /\ Goto(t, "idle", 0)
    /\ UNCHANGED core_vars

\* set_main_list, lines 84-85: lock the list and replace it.
SetMainListList(t) ==
    /\ AtLock(t, "set_main_list", 1)
    /\ Hold(t)
    /\ \E len \in 0..MaxList : tui' = [tui EXCEPT !.main_list = len]
    /\ Goto(t, "set_main_list", 2)
    /\ UNCHANGED core_vars

\* set_main_list, lines 86-87: lock the offset and clamp it.
SetMainListScroll(t) ==
    /\ AtLock(t, "set_main_list", 2)
    /\ Hold(t)
    /\ tui' = [tui EXCEPT !.main_scroll = ClampScroll(@, tui.main_list)]
    /\ Goto(t, "set_main_list", 3)
    /\ UNCHANGED core_vars

\* set_main_list, lines 88-89: lock the scrollbar state and set it.
SetMainListState(t) ==
    /\ AtLock(t, "set_main_list", 3)
    /\ Hold(t)
    /\ tui' = [tui EXCEPT !.position = tui.main_scroll,
                          !.content_length = tui.main_list]
    /\ Goto(t, "set_main_list", 4)
    /\ UNCHANGED core_vars

\* set_main_list, lines 90-91: request_redraw and return.
SetMainListReturn(t) ==
    /\ tui_pc[t] = At("set_main_list", 4)
    /\ tui' = [tui EXCEPT !.on_redraw = TRUE]
    /\ Drop(t)
    /\ Goto(t, "idle", 0)
    /\ UNCHANGED core_vars

\* set_main_scroll, line 94: lock the list.
SetMainScrollList(t) ==
    /\ AtLock(t, "set_main_scroll", 1)
    /\ Hold(t)
    /\ Goto(t, "set_main_scroll", 2)
    /\ UNCHANGED tui
    /\ UNCHANGED core_vars

\* set_main_scroll, lines 95-96: lock the offset, apply upd (any u16 result up
\* to MaxScroll) and clamp.
SetMainScrollScroll(t) ==
    /\ AtLock(t, "set_main_scroll", 2)
    /\ Hold(t)
    /\ \E upd \in 0..MaxScroll :
           tui' = [tui EXCEPT !.main_scroll = ClampScroll(upd, tui.main_list)]
    /\ Goto(t, "set_main_scroll", 3)
    /\ UNCHANGED core_vars

\* set_main_scroll, lines 97-98: lock the scrollbar state and set it.
SetMainScrollState(t) ==
    /\ AtLock(t, "set_main_scroll", 3)
    /\ Hold(t)
    /\ tui' = [tui EXCEPT !.position = tui.main_scroll,
                          !.content_length = tui.main_list]
    /\ Goto(t, "set_main_scroll", 4)
    /\ UNCHANGED core_vars

\* set_main_scroll, line 99: return.
SetMainScrollReturn(t) ==
    /\ tui_pc[t] = At("set_main_scroll", 4)
    /\ Drop(t)
    /\ Goto(t, "idle", 0)
    /\ UNCHANGED tui
    /\ UNCHANGED core_vars

\* frame, line 103: render the text area under its lock.
FrameTextArea ==
    /\ AtLock("ui", "frame", 1)
    /\ Goto("ui", "frame", 2)
    /\ UNCHANGED <<tui_lock, tui>>
    /\ UNCHANGED core_vars

\* frame, lines 106-107: lock the list; an empty list skips the list pane.
FrameList ==
    /\ AtLock("ui", "frame", 2)
    /\ Hold("ui")
    /\ Goto("ui", "frame", IF tui.main_list = 0 THEN 5 ELSE 3)
    /\ UNCHANGED tui
    /\ UNCHANGED core_vars

\* frame, line 113: read the offset under its lock.
FrameScroll ==
    /\ AtLock("ui", "frame", 3)
    /\ Goto("ui", "frame", 4)
    /\ UNCHANGED <<tui_lock, tui>>
    /\ UNCHANGED core_vars

\* frame, lines 115-119: render the scrollbar under the state's lock.
FrameState ==
    /\ AtLock("ui", "frame", 4)
    /\ Goto("ui", "frame", 5)
    /\ UNCHANGED <<tui_lock, tui>>
    /\ UNCHANGED core_vars

\* frame, line 122: lock the log buffer.
FrameLogs ==
    /\ AtLock("ui", "frame", 5)
    /\ Hold("ui")
    /\ Goto("ui", "frame", 6)
    /\ UNCHANGED tui
    /\ UNCHANGED core_vars

\* frame, lines 123-127: drop the oldest lines down to the height of the log
\* area, render, return; the loop then waits in select!.
FrameReturn ==
    /\ tui_pc["ui"] = At("frame", 6)
    /\ tui' = [tui EXCEPT !.logs = Min(@, LogHeight)]
    /\ Drop("ui")
    /\ Goto("ui", "select", 0)
    /\ UNCHANGED core_vars

\* run_interactive, line 174: on_redraw.notified() completes, using the permit.
SelectRedraw ==
    /\ tui_pc["ui"] = At("select", 0)
    /\ tui.on_redraw
    /\ tui' = [tui EXCEPT !.on_redraw = FALSE]
    /\ Goto("ui", "frame", 1)
    /\ UNCHANGED tui_lock
    /\ UNCHANGED core_vars

\* run_interactive, lines 175-181: a key arrives; Ctrl-C, Ctrl-D and the end
\* of the event stream ("quit") leave the loop.
SelectKey(key) ==
    /\ tui_pc["ui"] = At("select", 0)
    /\ key = "page_down" => tui.main_scroll < MaxScroll
    /\ key = "enter" => tui.input_queue < MaxInput
    /\ IF key = "quit" THEN Goto("ui", "done", 0) ELSE Goto("ui", key, 1)
    /\ UNCHANGED <<tui_lock, tui>>
    /\ UNCHANGED core_vars

\* Lines 181-183: Ctrl-L clears the log buffer.
KeyCtrlL ==
    /\ AtLock("ui", "ctrl_l", 1)
    /\ tui' = [tui EXCEPT !.logs = 0]
    /\ Goto("ui", "frame", 1)
    /\ UNCHANGED tui_lock
    /\ UNCHANGED core_vars

\* Lines 184-186: scroll.saturating_sub(8).
KeyPageUp ==
    /\ AtLock("ui", "page_up", 1)
    /\ tui' = [tui EXCEPT !.main_scroll = Max(@ - PageStep, 0)]
    /\ Goto("ui", "frame", 1)
    /\ UNCHANGED tui_lock
    /\ UNCHANGED core_vars

\* Lines 187-189: scroll.saturating_add(8).
KeyPageDown ==
    /\ AtLock("ui", "page_down", 1)
    /\ tui' = [tui EXCEPT !.main_scroll = Min(@ + PageStep, U16Max)]
    /\ Goto("ui", "frame", 1)
    /\ UNCHANGED tui_lock
    /\ UNCHANGED core_vars

\* Lines 190-192: Enter locks the text area and reads the line of the cursor.
KeyEnterText ==
    /\ AtLock("ui", "enter", 1)
    /\ Hold("ui")
    /\ Goto("ui", "enter", 2)
    /\ UNCHANGED tui
    /\ UNCHANGED core_vars

\* Lines 193-196: push the line on the input queue (locked for the statement),
\* open a new line in the text area, leave the block.
KeyEnterQueue ==
    /\ AtLock("ui", "enter", 2)
    /\ tui' = [tui EXCEPT !.input_queue = @ + 1, !.text_lines = @ + 1]
    /\ Drop("ui")
    /\ Goto("ui", "frame", 1)
    /\ UNCHANGED core_vars

\* Lines 196-198: any other key goes to the text area, which edits its line.
KeyOther ==
    /\ AtLock("ui", "other", 1)
    /\ Goto("ui", "frame", 1)
    /\ UNCHANGED <<tui_lock, tui>>
    /\ UNCHANGED core_vars

\* The functions a component calls and the keys the UI loop tells apart.
CallerOps == {"log", "set_main_list", "set_main_scroll"}

Keys == {"quit", "ctrl_l", "page_up", "page_down", "enter", "other"}

\* The Tui alone: the UI loop and the components, the Factory left aside.
InitTui ==
    /\ InitScenario
    /\ pool[ItemX] = MaxStock
    /\ reserve[ItemX] = 0

NextTui ==
    \/ \E t \in Callers, op \in CallerOps : Call(t, op)
    \/ \E t \in Callers : LogLock(t)
    \/ \E t \in Callers : LogPush(t)
    \/ \E t \in Callers : SetMainListList(t)
    \/ \E t \in Callers : SetMainListScroll(t)
    \/ \E t \in Callers : SetMainListState(t)
    \/ \E t \in Callers : SetMainListReturn(t)
    \/ \E t \in Callers : SetMainScrollList(t)
    \/ \E t \in Callers : SetMainScrollScroll(t)
    \/ \E t \in Callers : SetMainScrollState(t)
    \/ \E t \in Callers : SetMainScrollReturn(t)
    \/ FrameTextArea
    \/ FrameList
    \/ FrameScroll
    \/ FrameState
    \/ FrameLogs
    \/ FrameReturn
    \/ SelectRedraw
    \/ \E key \in Keys : SelectKey(key)
    \/ KeyCtrlL
    \/ KeyPageUp
    \/ KeyPageDown
    \/ KeyEnterText
    \/ KeyEnterQueue
    \/ KeyOther

\* Scheduling: a thread that holds the log buffer and can run does run, and a
\* thread blocked in logs.lock() gets the Mutex if it is free again and again.
FairTui ==
    /\ \A t \in Callers : WF_vars(LogPush(t))
    /\ \A t \in Callers : SF_vars(LogLock(t))
    /\ WF_vars(FrameReturn)

SpecTui == InitTui /\ [][NextTui]_vars /\ FairTui



\* ================================================================ claims
\* A complete Factory: the graph one build of one configuration gives.
CompleteFactory(f) == f.id >= 1 /\ f = BuildFactory(f.config, f.id)

\* Steps of the cycle loop.
CycleBeginStep == cyc_pc = "read" /\ cyc_pc' = "run"

UnitStep == cyc_pc = "run" /\ cyc_step' = cyc_step + 1

CycleEndStep == cyc_pc = "run" /\ cyc_pc' = "sleep"

FailureStep == UnitStep /\ failed' = cyc_step

\* The units a cycle has to advance, read off the configuration: every storage
\* in order, then every process entry in order, an emitter's rules in rule order
\* at the emitter's position.
RECURSIVE ExpectedProcessUnits(_, _)
ExpectedProcessUnits(processes, e) ==
    IF e > Len(processes) THEN <<>>
    ELSE (IF processes[e].type = "RedstoneEmitter"
          THEN [k \in 1..Len(processes[e].output_rules) |-> <<"process", e, k>>]
          ELSE << <<"process", e, 0>> >>)
         \o ExpectedProcessUnits(processes, e + 1)

ExpectedUnits(config) ==
    [i \in 1..Len(config.storages) |-> <<"storage", i, 0>>]
    \o ExpectedProcessUnits(config.processes, 1)

\* ---------------------------------------------------------------- C1
\* C1: a reload attempt whose configuration cannot be read, parsed or built
\* leaves the active Factory reference the very Factory object it was before the
\* attempt: never replaced, never cleared, never a partial graph.
C1_FailedReloadKeepsFactory ==
    (attempt.outcome # "none" /\ ~attempt.input_valid) =>
        /\ factory_ref = attempt.prev
        /\ CompleteFactory(factory_ref)

\* A reload of an invalid file has failed after an earlier reload succeeded.
C1_Witness ==
    /\ attempt.outcome = "failed"
    /\ ~attempt.input_valid
    /\ factory_ref.id = 2
    /\ file \in {FileMissing, FileGarbage}

\* ---------------------------------------------------------------- C2
\* C2: a failed reload aborts only that attempt: the watcher is still there
\* afterwards, so that a later change to a valid configuration is built and
\* becomes the active Factory.
C2_WatcherSurvivesFailedReload ==
    attempt.outcome = "failed" => watcher_pc # "dead"

\* ---------------------------------------------------------------- C3
\* C3: whoever reads the current Factory reference obtains a complete Factory,
\* the previously active one or the newly built one, never an empty reference
\* and never a mix; a reader keeps the Factory it obtained until it finishes.
C3_ReferenceComplete ==
    /\ main_pc = "run" => CompleteFactory(factory_ref)
    /\ cyc_pc = "run" => CompleteFactory(cur)

C3_AtomicReplacement ==
    /\ []C3_ReferenceComplete
    /\ [][/\ CycleBeginStep => cur' = factory_ref
          /\ (cyc_pc = "run" /\ cyc_pc' = "run") => cur' = cur
          /\ (main_pc = "run" /\ factory_ref' # factory_ref) =>
                /\ CompleteFactory(factory_ref')
                /\ factory_ref' = new_factory]_vars

\* A cycle is running on the Factory it obtained while a newer one is active.
C3_Witness ==
    /\ cyc_pc = "run"
    /\ cyc_step > 1
    /\ factory_ref.id > cur.id
    /\ factory_ref.config # cur.config

ParametersOf(f) ==
    /\ f.min_cycle_time = TicksPerSec * f.config.min_cycle_time_secs
    /\ UnitsOf(f) = ExpectedUnits(f.config)

C5_GuardOnlyAroundPointer ==
    /\ lock = "watcher" => watcher_pc = "locked"
    /\ lock = "cycle" => cyc_pc = "read"
    /\ watcher_pc \in {"building", "built"} => lock # "watcher"
    /\ cyc_pc = "run" => lock # "cycle"

\* The cycle loop reads the pointer while the watcher is building.
C5_Witness ==
    /\ watcher_pc = "building"
    /\ lock = "cycle"

\* ---------------------------------------------------------------- C6
\* C6: of two consecutive cycles of one Factory, the later begins at least the
\* configured min_cycle_time_secs after the earlier began.
C6_MinCycleTime ==
    [][(CycleBeginStep /\ factory_ref.id = last_cycle.prev_id) =>
          last_cycle.gap >= TicksPerSec * factory_ref.config.min_cycle_time_secs]_vars

\* A second cycle of a Factory with a non-zero min_cycle_time is beginning.
C6_Witness ==
    /\ cyc_pc = "read"
    /\ factory_ref.id = last_cycle.prev_id
    /\ factory_ref.config.min_cycle_time_secs >= 1
    /\ last_cycle.gap >= TicksPerSec

\* ---------------------------------------------------------------- C7
\* C7: within a cycle the units are advanced one at a time, every Storage
\* before any Process, the Processes in configured order, an emitter's rules in
\* rule order at the emitter's position.
C7_SequentialInOrder ==
    cyc_pc = "run" =>
        /\ cyc_step - 1 <= Len(ExpectedUnits(cur.config))
        /\ advanced = SubSeq(ExpectedUnits(cur.config), 1, cyc_step - 1)

\* A cycle has advanced the second rule of the emitter declared second.
C7_Witness ==
    /\ cyc_pc = "run"
    /\ Len(advanced) = 4
    /\ advanced[2] = <<"process", 1, 0>>
    /\ advanced[4] = <<"process", 2, 2>>

\* ---------------------------------------------------------------- C8
\* C8: an I/O failure in a unit's step leaves the world as it was, the cycle
\* goes on with the next unit, and the cycle ends only once every unit of the
\* Factory was advanced.
C8_FailureSkipsOnlyThatProcess ==
    [][/\ FailureStep =>
            /\ pool' = pool /\ reserve' = reserve /\ signal' = signal
            /\ cyc_pc' = "run"
            /\ advanced' = Append(advanced, ExpectedUnits(cur.config)[cyc_step])
       /\ CycleEndStep => advanced = ExpectedUnits(cur.config)]_vars

\* A Process failed, the Processes after it were advanced, the cycle is complete.
C8_Witness ==
    /\ cyc_pc = "run"
    /\ failed > Len(cur.storages)
    /\ cyc_step > failed + 1
    /\ cyc_step > Len(UnitsOf(cur))

\* ---------------------------------------------------------------- C9
\* The configured input an extraction of the last step was made for.
ConfigInput(e) == cur.config.processes[e.entry].recipes[e.recipe].inputs[e.input]

ConfigSize(input) == SumSeq([j \in 1..Len(input.slots) |-> input.slots[j].size])

\* What the input may use: the normal pool, and with allow_backup the reserve
\* above extra_backup.
ConfigAvailable(e, input) ==
    e.pool_before
    + (IF input.allow_backup THEN Max(e.reserve_before - input.extra_backup, 0) ELSE 0)

\* C9: the quantity extracted for an input in one step is a multiple of its
\* per-set size, at most floor(available / size) * size, and with
\* allow_backup = false the reserve is the same before and after.
C9_ExtractionWholeSets ==
    \A n \in 1..Len(last_log) :
        LET e == last_log[n]
            input == ConfigInput(e)
            size == ConfigSize(input)
        IN /\ e.extracted % size = 0
           /\ e.extracted <= (ConfigAvailable(e, input) \div size) * size
           /\ ~input.allow_backup =>
                 /\ e.reserve_after = e.reserve_before
                 /\ e.from_reserve = 0

\* A two-slot input without allow_backup was extracted, the pool held more than
\* was taken and the reserve was stocked.
C9_Witness ==
    \E n \in 1..Len(last_log) :
        /\ Len(ConfigInput(last_log[n]).slots) = 2
        /\ ~ConfigInput(last_log[n]).allow_backup
        /\ last_log[n].extracted > 0
        /\ last_log[n].pool_before > last_log[n].extracted
        /\ last_log[n].reserve_before > 0

\* ---------------------------------------------------------------- C10
\* C10: after an extraction that draws on the reserve, made for an input with
\* allow_backup, at least that input's extra_backup units are left in the reserve.
C10_ReserveKeepsExtraBackup ==
    \A n \in 1..Len(last_log) :
        last_log[n].from_reserve > 0 =>
            /\ ConfigInput(last_log[n]).allow_backup
            /\ last_log[n].reserve_after >= ConfigInput(last_log[n]).extra_backup
            /\ last_log[n].reserve_after = last_log[n].reserve_before - last_log[n].from_reserve

\* Two recipes drew on the same reserve in one step, the first down to its extra_backup.
C10_Witness ==
    /\ Len(last_log) = 2
    /\ last_log[1].from_reserve > 0
    /\ last_log[2].from_reserve > 0
    /\ ConfigInput(last_log[1]).extra_backup = 1
    /\ last_log[1].reserve_after = 1

\* ---------------------------------------------------------------- C11
\* The configured recipe an extraction of the last step was made for.
ConfigRecipe(e) == cur.config.processes[e.entry].recipes[e.recipe]

\* feasible_sets of the input of extraction e on the stock it found.
ConfigFeasible(e) == ConfigAvailable(e, ConfigInput(e)) \div ConfigSize(ConfigInput(e))

\* The extractions of the last step made for the recipe extraction e belongs to.
SameRecipe(e) == {m \in 1..Len(last_log) : last_log[m].recipe = e.recipe}

\* C11: a recipe that fired in a step had feasible_sets >= 1 for every one of
\* its inputs; the sets executed are the minimum of feasible_sets over its
\* inputs capped at max_sets; every input was extracted for that number of sets;
\* every non_consumable of the recipe is still there.
C11_FiresOnCommonFeasibleSets ==
    \A n \in 1..Len(last_log) :
        LET e == last_log[n]
            recipe == ConfigRecipe(e)
            built == cur.processes[cyc_step - 1 - Len(cur.storages)].recipes[e.recipe]
        IN /\ Cardinality(SameRecipe(e)) = Len(recipe.inputs)
           /\ {last_log[m].input : m \in SameRecipe(e)} = 1..Len(recipe.inputs)
           /\ \A m \in SameRecipe(e) :
                 /\ ConfigFeasible(last_log[m]) >= 1
                 /\ e.sets <= ConfigFeasible(last_log[m])
                 /\ last_log[m].sets = e.sets
           /\ e.sets >= 1
           /\ e.sets <= recipe.max_sets
           /\ \/ e.sets = recipe.max_sets
              \/ \E m \in SameRecipe(e) : e.sets = ConfigFeasible(last_log[m])
           /\ e.extracted = e.sets * ConfigSize(ConfigInput(e))
           /\ \A k \in 1..Len(built.non_consumables) :
                 \E item \in Candidates(built.non_consumables[k]) : pool[item] > 0

\* A two-input recipe fired for fewer sets than max_sets and than one of its
\* inputs allowed: the other input set the number.
C11_Witness ==
    \E n, m \in 1..Len(last_log) :
        /\ last_log[n].recipe = last_log[m].recipe
        /\ last_log[n].input = 1
        /\ last_log[m].input = 2
        /\ ConfigFeasible(last_log[n]) > ConfigFeasible(last_log[m])
        /\ last_log[n].sets = ConfigFeasible(last_log[m])
        /\ last_log[n].sets < ConfigRecipe(last_log[n]).max_sets
        /\ last_log[n].from_reserve > 0

\* ---------------------------------------------------------------- C12
\* Matching of a configured filter, read off the configuration document.
ConfigMatches(f, item) ==
    CASE f.type = "Label" -> item.label = f.value
      [] f.type = "Name" -> item.name = f.value
      [] f.type = "Both" -> item.label = f.label /\ item.name = f.name
      [] f.type = "Custom" -> TRUE

\* A configured recipe is fully satisfiable on the stock (p, r): every input
\* finds at least one set of its item.
ConfigSatisfiable(recipe, p, r) ==
    \A i \in 1..Len(recipe.inputs) :
        \E item \in Items :
            /\ ConfigMatches(recipe.inputs[i].item, item)
            /\ p[item]
                + (IF recipe.inputs[i].allow_backup
                   THEN Max(r[item] - recipe.inputs[i].extra_backup, 0) ELSE 0)
               >= ConfigSize(recipe.inputs[i])

\* A step of a Process that has recipes, without I/O failure.
RecipeStep ==
    /\ UnitStep
    /\ cyc_step > Len(cur.storages)
    /\ failed' # cyc_step
    /\ cur.config.processes[UnitsOf(cur)[cyc_step][2]].type \in {"Workbench", "Slotted"}

\* C12: the recipes of a Process are tried in declaration order; with
\* strict_priority exactly the first fully satisfiable recipe fires and no
\* other; without it several may fire, each for at most its own max_sets.
C12_StrictPriorityFirstSatisfiable ==
    [][RecipeStep =>
          LET process == cur.config.processes[UnitsOf(cur)[cyc_step][2]]
              fired == {last_log'[n].recipe : n \in 1..Len(last_log')}
          IN /\ \A n, m \in 1..Len(last_log') :
                   n <= m => last_log'[n].recipe <= last_log'[m].recipe
             /\ \A n \in 1..Len(last_log') :
                   /\ last_log'[n].recipe \in 1..Len(process.recipes)
                   /\ last_log'[n].sets <= process.recipes[last_log'[n].recipe].max_sets
             /\ (process.type = "Slotted" /\ process.strict_priority) =>
                   /\ Cardinality(fired) <= 1
                   /\ \A k \in 1..Len(process.recipes) :
                         k \in fired <=>
                            /\ ConfigSatisfiable(process.recipes[k], pool, reserve)
                            /\ \A j \in 1..(k - 1) :
                                  ~ConfigSatisfiable(process.recipes[j], pool, reserve)
             /\ 1 \in fired <=> ConfigSatisfiable(process.recipes[1], pool, reserve)]_vars

\* With strict_priority the first recipe fired and the second, which the stock
\* left after the step still satisfies, did not.
C12_Witness ==
    /\ cyc_pc = "run"
    /\ cyc_step > Len(cur.storages) + 1
    /\ cur.processes[cyc_step - 1 - Len(cur.storages)].kind = "Slotted"
    /\ cur.config.processes[2].strict_priority
    /\ Len(last_log) = 1
    /\ last_log[1].recipe = 1
    /\ ConfigSatisfiable(cur.config.processes[2].recipes[2], pool, reserve)

\* Without strict_priority two recipes fired in one step.
C12_WitnessSeveral ==
    /\ cyc_pc = "run"
    /\ cyc_step > Len(cur.storages) + 1
    /\ cur.processes[cyc_step - 1 - Len(cur.storages)].kind = "Slotted"
    /\ ~cur.config.processes[2].strict_priority
    /\ Len(last_log) = 2
    /\ last_log[1].recipe = 1
    /\ last_log[2].recipe = 2

\* ---------------------------------------------------------------- C13
\* No Process of the configuration can make progress on the stock (p, r): none
\* of its recipes is fully satisfiable.
NoProgressPossible(config, p, r) ==
    \A e \in 1..Len(config.processes) :
        \A k \in 1..Len(RecipesOf(config.processes[e])) :
            ~ConfigSatisfiable(RecipesOf(config.processes[e])[k], p, r)

\* A step of the cycle loop: the cycle begins, advances a unit, or ends.
CycleStep == cyc_pc' # cyc_pc \/ cyc_step' # cyc_step

\* The Factory a cycle runs against: the one it obtained, or the active one
\* when it is about to begin.
CycleFactory == IF cyc_pc = "run" THEN cur ELSE factory_ref

\* C13: while no Process of the Factory can make progress, no step of a cycle
\* changes the contents of the Storages or of the reserve, and no Process can
\* make progress after the step either: a cycle, and any number of cycles,
\* leave the contents as they were.
C13_NoProgressCycleIdempotent ==
    [][(/\ main_pc = "run"
        /\ CycleStep
        /\ NoProgressPossible(CycleFactory.config, pool, reserve)) =>
          /\ pool' = pool
          /\ reserve' = reserve
          /\ last_log' = <<>>
          /\ NoProgressPossible(CycleFactory.config, pool', reserve')]_vars

\* A cycle has advanced every unit without failure on a Chest that holds 3 X
\* for a recipe that needs 5, the reserve holding X as well.
C13_Witness ==
    /\ cyc_pc = "run"
    /\ cyc_step > Len(UnitsOf(cur))
    /\ failed = 0
    /\ pool[ItemX] = 3
    /\ reserve[ItemX] >= 2
    /\ ConfigSize(cur.config.processes[1].recipes[1].inputs[1]) = 5
    /\ NoProgressPossible(cur.config, pool, reserve)

\* ---------------------------------------------------------------- C14
\* C14: in the worked scenario, the step of the Workbench on a Chest holding
\* 10 X extracts exactly 5 X and leaves 5, and the recipe's declared output P
\* has arrived in the destination Storage.
C14_ScenarioOutputRouted ==
    (/\ cyc_pc = "run"
     /\ Len(last_log) = 1
     /\ last_log[1].pool_before = 10) =>
        /\ last_log[1].extracted = 5
        /\ last_log[1].from_reserve = 0
        /\ pool[ItemX] = 5
        /\ pool[ItemP] >= 1

\* The extraction half of the scenario alone: 5 X extracted, 5 left.
C14_ScenarioExtraction ==
    (/\ cyc_pc = "run"
     /\ Len(last_log) = 1
     /\ last_log[1].pool_before = 10) =>
        /\ last_log[1].extracted = 5
        /\ last_log[1].from_reserve = 0
        /\ pool[ItemX] = 5

\* ---------------------------------------------------------------- C15
\* A trigger filter of the rule matches an item of which the Storages hold some.
Triggered(rule, p) ==
    \E t \in 1..Len(rule.trigger_items) :
        \E item \in Items : ConfigMatches(rule.trigger_items[t], item) /\ p[item] > 0

\* C15: right after the step of an emitter Process, made without I/O failure,
\* the level at each of its redstone addresses is the rule's on_signal if a
\* trigger filter matches a nonzero quantity, and its off_signal otherwise.
C15_EmitterOutputFollowsTriggers ==
    (/\ cyc_pc = "run"
     /\ advanced # <<>>
     /\ advanced[Len(advanced)][3] >= 1
     /\ failed # Len(advanced)) =>
        LET entry == cur.config.processes[advanced[Len(advanced)][2]]
            rule == entry.output_rules[advanced[Len(advanced)][3]]
        IN \A i \in 1..Len(entry.accesses) :
              signal[entry.accesses[i].addr] =
                 IF Triggered(rule, pool) THEN rule.on_signal ELSE rule.off_signal

\* ---------------------------------------------------------------- C16
\* The Processes the Factory holds for the configuration entry e.
ProcessesOfEntry(f, e) == {i \in 1..Len(f.processes) : f.processes[i].entry = e}

\* The number of Processes the configuration asks for: one per entry that is no
\* emitter, one per rule of every emitter.
ExpectedProcessCount(config) ==
    SumSeq([e \in 1..Len(config.processes) |->
               IF config.processes[e].type = "RedstoneEmitter"
               THEN Len(config.processes[e].output_rules) ELSE 1])

\* C16: the Factory built from a configuration holds, for a RedstoneEmitter
\* entry with n rules, exactly n emitter Processes, one per rule (none when
\* n = 0), and exactly one Process for every other entry; it holds no other.
C16_OneEmitterProcessPerRule ==
    main_pc = "run" =>
        /\ Len(factory_ref.processes) = ExpectedProcessCount(factory_ref.config)
        /\ \A e \in 1..Len(factory_ref.config.processes) :
              LET entry == factory_ref.config.processes[e]
                  built == ProcessesOfEntry(factory_ref, e)
              IN /\ \A i \in built : factory_ref.processes[i].kind = entry.type
                 /\ IF entry.type = "RedstoneEmitter"
                    THEN /\ Cardinality(built) = Len(entry.output_rules)
                         /\ {factory_ref.processes[i].rule : i \in built}
                              = 1..Len(entry.output_rules)
                    ELSE Cardinality(built) = 1

\* The active Factory was built from an emitter with two rules followed by an
\* emitter with none: it holds two Processes.
C16_Witness ==
    /\ main_pc = "run"
    /\ Len(factory_ref.config.processes) = 2
    /\ factory_ref.config.processes[1].type = "RedstoneEmitter"
    /\ Len(factory_ref.config.processes[1].output_rules) = 2
    /\ factory_ref.config.processes[2].type = "RedstoneEmitter"
    /\ Len(factory_ref.config.processes[2].output_rules) = 0
    /\ Len(factory_ref.processes) = 2
    /\ cyc_pc = "run"
    /\ cyc_step > Len(UnitsOf(cur))

\* ---------------------------------------------------------------- C17
\* The (client, address) pairs a Storage or Process of a Factory claims.
BuiltAddrs(unit) ==
    CASE unit.kind = "Turtle" -> {}
      [] unit.kind = "RedstoneEmitter" ->
            {<<unit.accesses[i].client, unit.accesses[i].addr>> :
                i \in 1..Len(unit.accesses)}
      [] OTHER ->
            {<<unit.accesses[i].client, unit.accesses[i].inv_addr>> :
                i \in 1..Len(unit.accesses)}

\* C17: in the active Factory no two distinct Storages or Processes claim the
\* same (client, address) pair, the emitter Processes made from one
\* RedstoneEmitter entry included.
C17_NoAddressClaimedTwice ==
    main_pc = "run" =>
        LET units == factory_ref.storages \o factory_ref.processes IN
        \A i, j \in 1..Len(units) :
            i < j => BuiltAddrs(units[i]) \cap BuiltAddrs(units[j]) = {}

\* What does hold: an address is shared only by the emitter Processes of one
\* RedstoneEmitter entry.
C17_SharedOnlyWithinOneEmitter ==
    main_pc = "run" =>
        \A i, j \in 1..Len(factory_ref.processes) :
            (i < j /\ BuiltAddrs(factory_ref.processes[i])
                         \cap BuiltAddrs(factory_ref.processes[j]) # {}) =>
                /\ factory_ref.processes[i].kind = "RedstoneEmitter"
                /\ factory_ref.processes[i].entry = factory_ref.processes[j].entry

\* ---------------------------------------------------------------- C18
\* Every (client, address) pair the entries of a configuration name, in order.
ConfigAddrList(config) ==
    Flatten([e \in 1..Len(config.storages \o config.processes) |->
                LET entry == (config.storages \o config.processes)[e] IN
                IF entry.type = "Turtle" THEN <<>>
                ELSE [i \in 1..Len(entry.accesses) |->
                         <<entry.accesses[i].client, entry.accesses[i].addr>>]])

\* The configuration breaks a construction-time invariant: a recipe with
\* max_sets <= 0, or an address named twice.
ConfigViolates(config) ==
    \/ \E e \in 1..Len(config.processes) :
          /\ config.processes[e].type \in {"Workbench", "Slotted"}
          /\ \E k \in 1..Len(config.processes[e].recipes) :
                config.processes[e].recipes[k].max_sets <= 0
    \/ \E i, j \in 1..Len(ConfigAddrList(config)) :
          i # j /\ ConfigAddrList(config)[i] = ConfigAddrList(config)[j]

\* The file on disk is a document that breaks a construction-time invariant.
ViolatingFile == file.kind = "json" /\ ConfigViolates(file.doc)

ConvertedInput(b, c) ==
    /\ Len(b.slots) = Len(c.slots)
    /\ \A j \in 1..Len(c.slots) : b.slots[j] = <<c.slots[j].slot, c.slots[j].size>>
    /\ b.size = ConfigSize(c)
    /\ b.allow_backup = c.allow_backup
    /\ b.extra_backup = c.extra_backup

\* C19: every recipe input of the active Factory keeps the declared (slot, size)
\* placements in order, its size is their sum, allow_backup, extra_backup and
\* max_sets are those declared; an extraction of k sets places k * size_i at
\* each declared slot i, k * size in total.
C19_ConvertKeepsPlacements ==
    main_pc = "run" =>
        /\ \A i \in 1..Len(factory_ref.processes) :
              LET built == factory_ref.processes[i]
                  entry == factory_ref.config.processes[built.entry]
              IN entry.type \in {"Workbench", "Slotted"} =>
                    /\ Len(built.recipes) = Len(entry.recipes)
                    /\ \A k \in 1..Len(entry.recipes) :
                          /\ built.recipes[k].max_sets = entry.recipes[k].max_sets
                          /\ Len(built.recipes[k].inputs) = Len(entry.recipes[k].inputs)
                          /\ \A n \in 1..Len(entry.recipes[k].inputs) :
                                ConvertedInput(built.recipes[k].inputs[n],
                                               entry.recipes[k].inputs[n])
        /\ \A n \in 1..Len(last_log) :
              LET e == last_log[n]
                  c == ConfigInput(e)
              IN /\ Len(e.placements) = Len(c.slots)
                 /\ \A j \in 1..Len(c.slots) :
                       e.placements[j] = <<c.slots[j].slot, e.sets * c.slots[j].size>>
                 /\ e.extracted = e.sets * ConfigSize(c)
                 /\ e.extracted = SumSeq([j \in 1..Len(c.slots) |-> e.placements[j][2]])

\* Two sets of an input with two placements of different sizes were extracted,
\* part of them from the reserve.
C19_Witness ==
    \E n \in 1..Len(last_log) :
        /\ last_log[n].sets = 2
        /\ Len(last_log[n].placements) = 2
        /\ last_log[n].placements[1][1] # last_log[n].placements[2][1]
        /\ last_log[n].placements[1][2] # last_log[n].placements[2][2]
        /\ last_log[n].from_reserve > 0

\* One order of the Tui's locks.
LockOrder == <<"text_area", "input_queue", "main_list", "main_scroll",
               "main_scroll_state", "logs">>

Rank(l) == CHOOSE k \in 1..Len(LockOrder) : LockOrder[k] = l

\* Every lock a thread asks for comes after every lock it holds.
LocksTakenInOrder ==
    \A t \in TuiThreads :
        Wants(t) # "none" =>
            \A l \in TuiLocks : tui_lock[l] = t => Rank(l) < Rank(Wants(t))

\* A set of threads each of which waits for a lock held inside the set.
Deadlocked(S) ==
    /\ S # {}
    /\ \A t \in S : Wants(t) # "none" /\ tui_lock[Wants(t)] \in S

\* C20: log, set_main_list, set_main_scroll, frame and the key handlers take the
\* Tui's locks in one order (text_area, input_queue, main_list, main_scroll,
\* main_scroll_state, logs); however components calling log, set_main_list or
\* set_main_scroll interleave with the UI loop, no set of threads waits for
\* locks in a circle, and every call of log returns.
C20_LocksOrderedLogReturns ==
    /\ [](LocksTakenInOrder /\ \A S \in SUBSET TuiThreads : ~Deadlocked(S))
    /\ \A t \in Callers : (tui_pc[t].op = "log") ~> (tui_pc[t].op = "idle")

\* A component waits in log for the log buffer, which frame holds together with
\* the list, while another component waits in set_main_list for the list.
C20_Witness ==
    /\ tui_pc["ui"] = At("frame", 6)
    /\ tui_lock["logs"] = "ui" /\ tui_lock["main_list"] = "ui"
    /\ \E t \in Callers : tui_pc[t] = At("log", 1)
    /\ \E t \in Callers : tui_pc[t] = At("set_main_list", 1)

\* The locks around the list, its scroll offset and the scrollbar state.
ScrollLocks == {"main_list", "main_scroll", "main_scroll_state"}

\* No operation on the list or its offset is under way: the three locks are
\* free and the UI loop is not inside a PageUp or PageDown handler.
ScrollAtRest ==
    /\ \A l \in ScrollLocks : tui_lock[l] = "free"
    /\ tui_pc["ui"].op \notin {"page_up", "page_down"}

\* The offset is inside the list and the scrollbar shows it.
ScrollInBounds ==
    /\ tui.main_scroll <= Max(tui.main_list, 1) - 1
    /\ tui.position = tui.main_scroll

\* C21: after any sequence of set_main_list, set_main_scroll, PageUp and
\* PageDown, the scroll offset of the main list is at most
\* max(len(main_list), 1) - 1, the position of the scrollbar state equals it,
\* and it is a 16-bit value.
C21_ScrollStaysInBounds ==
    /\ tui.main_scroll \in 0..U16Max
    /\ ScrollAtRest => ScrollInBounds

\* What does hold: the offset is always a 16-bit value, and set_main_list and
\* set_main_scroll return with the offset in bounds.
C21_OffsetIsU16 == tui.main_scroll \in 0..U16Max

C21_SettersLeaveInBounds ==
    [][(\E t \in Callers : SetMainListReturn(t) \/ SetMainScrollReturn(t))
           => ScrollInBounds']_vars

====
